---- MODULE Spec2Model ----
(***************************************************************************)
(* A* search engine of src/lib/path/astar.rs: the open set (a binary       *)
(* heap ordered by estimated cost f), the best-per-cell map `grid`, the    *)
(* parent-link table `parent_map` (a hash map whose keys hash by the       *)
(* integer id and compare by f), the identity counter, and the three       *)
(* public operations clear, next_trajectory and optimize.                  *)
(***************************************************************************)
EXTENDS Integers, Sequences, FiniteSets, TLC

(***************************************************************************)
(* Bounds of the exploration.                                              *)
(***************************************************************************)
\* ids handed out by the counter stay within 0..MaxId
MaxId == 5
\* the open set never holds more than MaxQueue nodes
MaxQueue == 5
\* a run of next_trajectory calls is followed for at most MaxPops pops
MaxPops == 7

(***************************************************************************)
(* The planning problems the engine is run on: the Model and Sampler       *)
(* collaborators, over four states and two controls.                       *)
(***************************************************************************)
States == 0..3
Controls == {1, 2}
\* Default::default() of the Control type: the placeholder of the start node
DefaultControl == 0
\* Default::default() of the Cost type
DefaultCost == 0

\* transition tables: the set holds the child state, or is empty when the
\* control is rejected (integrate returns None)
LineTrans == [s \in States |-> [c \in Controls |->
                IF c = 1 THEN (IF s < 3 THEN {s + 1} ELSE {})
                         ELSE (IF s > 0 THEN {s - 1} ELSE {})]]
DiamondTrans == [s \in States |-> [c \in Controls |->
                CASE s = 0 -> (IF c = 1 THEN {1} ELSE {2})
                  [] s = 1 -> (IF c = 2 THEN {3} ELSE {})
                  [] s = 2 -> (IF c = 1 THEN {1} ELSE {})
                  [] OTHER -> (IF c = 1 THEN {1} ELSE {})]]
\* a chain 0 -> 1 -> 2 -> 3 with a jump from 0 to 3
JumpTrans == [s \in States |-> [c \in Controls |->
                CASE s = 0 -> (IF c = 1 THEN {1} ELSE {3})
                  [] s = 3 -> {}
                  [] OTHER -> (IF c = 1 THEN {s + 1} ELSE {})]]
NoTrans == [s \in States |-> [c \in Controls |-> {}]]

\* edge cost tables
UnitCost == [a \in States |-> [b \in States |-> 1]]
AsymCost == [a \in States |-> [b \in States |-> IF a < b THEN 1 ELSE 2]]
WeightCost == [a \in States |-> [b \in States |->
                IF {a, b} = {0, 1} THEN 3 ELSE 1]]

\* a step to a neighbour costs 1, a longer one 3
JumpCost == [a \in States |-> [b \in States |->
                IF a - b \in {-1, 0, 1} THEN 1 ELSE 3]]

\* discretization keys
FineKey == [s \in States |-> s]
CoarseKey == [s \in States |-> s \div 2]

Min(S) == CHOOSE x \in S : \A y \in S : x <= y

\* The costs of the paths of at most k edges from a to b under a transition and
\* a cost table: each the sum of cost[from][to] along the path.
RECURSIVE PathCosts(_, _, _, _, _)
PathCosts(trans, costT, k, a, b) ==
    (IF a = b THEN {0} ELSE {}) \cup
    (IF k = 0 THEN {}
     ELSE UNION { {costT[a][n] + d : d \in PathCosts(trans, costT, k - 1, n, b)} :
                  n \in UNION {trans[a][c] : c \in Controls} })

ZeroHeur == [s \in States |-> [g \in States |-> 0]]
ExactHeur(trans, costT) ==
    [s \in States |-> [g \in States |->
        LET ds == PathCosts(trans, costT, Cardinality(States), s, g)
        IN IF ds = {} THEN 0 ELSE Min(ds)]]

MkModel(trans, costT, heur, key) ==
    [trans |-> trans, cost |-> costT, heur |-> heur, key |-> key]

Models ==
    { MkModel(LineTrans, UnitCost, ExactHeur(LineTrans, UnitCost), FineKey),
      MkModel(LineTrans, AsymCost, ExactHeur(LineTrans, AsymCost), FineKey),
      MkModel(DiamondTrans, WeightCost, ZeroHeur, FineKey),
      MkModel(LineTrans, UnitCost, ZeroHeur, CoarseKey),
      MkModel(JumpTrans, JumpCost, ExactHeur(JumpTrans, JumpCost), CoarseKey),
      MkModel(NoTrans, UnitCost, ZeroHeur, FineKey) }

\* the hash values of the ids 0..MaxId under the parent map's hasher: either
\* all different, or one pair of ids sharing a value
Ids == 0..MaxId
Hashers ==
    { [i \in Ids |-> i] } \cup
    { [i \in Ids |-> IF i = p[2] THEN p[1] ELSE i] :
          p \in {q \in Ids \X Ids : q[1] < q[2]} }

VARIABLES
    queue,        \* AStar.queue: the heap's array
    parent_map,   \* AStar.parent_map: entries [k |-> Id, v |-> Node]
    grid,         \* AStar.grid: discretization key -> Id
    id_counter,   \* AStar.id_counter
    model,        \* the Model (and Sampler) the calls are made with
    hasher,       \* the hash of each id under parent_map's hasher
    call,         \* the last call: [op, start, goal]
    result,       \* what the last call returned
    popped,       \* the nodes the last call popped, in order
    events,       \* what the last call did with each sampled control, in order
    pop_log,      \* each pop of the last call: the node and the heap left
    frames,       \* the engine before and after each sampled control of events
    gen,          \* history: the children generated since construction or clear
    used,         \* history: the (start, goal) pairs passed since then
    session       \* history: the run of next_trajectory calls under way

vars == <<queue, parent_map, grid, id_counter, model, hasher,
          call, result, popped, events, pop_log, frames, gen, used,
          session>>

(***************************************************************************)
(* The collaborators as the engine calls them.                             *)
(***************************************************************************)
\* model.integrate(state, control): the child state, or rejected (empty)
integrate(state, control) == model.trans[state][control]
\* model.cost(from, to)
cost(from, to) == model.cost[from][to]
\* model.heuristic(state, goal)
heuristic(state, goal) == model.heur[state][goal]
\* model.converge(state, goal)
converge(state, goal) == state = goal
\* sampler.sample(model, state): the candidate controls, in order
sample(state) == <<1, 2>>
\* state.grid_position()
grid_position(state) == model.key[state]

(***************************************************************************)
(* Id and Node, and their orderings.                                       *)
(***************************************************************************)
Id(id, f, g) == [id |-> id, f |-> f, g |-> g]
Node(id, state, control) == [id |-> id, state |-> state, control |-> control]

\* Id::eq: two ids are equal when their f is
IdEq(a, b) == a.f = b.f
\* the order of f itself (self.f.cmp(other.f)), under which the heap's
\* greatest node is the one of greatest f
IdLe_by_f(a, b) == a.f <= b.f
\* Id::cmp is other.f.cmp(self.f); a <= b in that order
IdLe(a, b) == b.f <= a.f
\* Node::cmp delegates to Id::cmp
NodeLe(a, b) == IdLe(a.id, b.id)

(***************************************************************************)
(* queue: BinaryHeap<Node>, a max-heap under Node::cmp kept in an array    *)
(* (positions are 0-based, the sequence is 1-based).                       *)
(***************************************************************************)
RECURSIVE sift_up(_, _, _)
sift_up(data, pos, elt) ==
    IF pos > 0
    THEN LET parent == (pos - 1) \div 2
         IN IF NodeLe(elt, data[parent + 1])
            THEN [data EXCEPT ![pos + 1] = elt]
            ELSE sift_up([data EXCEPT ![pos + 1] = data[parent + 1]], parent, elt)
    ELSE [data EXCEPT ![pos + 1] = elt]

RECURSIVE sift_down_to_bottom(_, _, _)
sift_down_to_bottom(data, pos, elt) ==
    LET end == Len(data)
        child == 2 * pos + 1
    IN IF child <= end - 2
       THEN LET c == IF NodeLe(data[child + 1], data[child + 2])
                     THEN child + 1 ELSE child
            IN sift_down_to_bottom([data EXCEPT ![pos + 1] = data[c + 1]], c, elt)
       ELSE IF child = end - 1
       THEN sift_up([data EXCEPT ![pos + 1] = data[child + 1]], child, elt)
       ELSE sift_up(data, pos, elt)

\* BinaryHeap::push
push(data, item) == sift_up(Append(data, item), Len(data), item)

\* BinaryHeap::pop on a non-empty heap: the item removed and the array left
pop(data) ==
    LET last == data[Len(data)]
        rest == SubSeq(data, 1, Len(data) - 1)
    IN IF rest = <<>>
       THEN [item |-> last, data |-> rest]
       ELSE [item |-> rest[1], data |-> sift_down_to_bottom(rest, 0, last)]

(***************************************************************************)
(* parent_map: HashMap<Id, Node>.  A probe for a key visits the entries    *)
(* whose stored hash equals the key's (Id::hash feeds only the integer     *)
(* id) and takes the one Id::eq accepts (equal f).  The table is small     *)
(* enough to be one probe group, so an entry is found from any key that    *)
(* shares its hash value and its f.                                        *)
(***************************************************************************)
\* Id::hash under the map's hasher (ids beyond those enumerated hash apart)
Hash(h, id) == IF id.id \in DOMAIN h THEN h[id.id] ELSE id.id

Matches(h, entry, key) == Hash(h, entry.k) = Hash(h, key) /\ IdEq(entry.k, key)

\* HashMap::get: the entries found for the key (none or one)
get(h, pm, key) == {entry \in pm : Matches(h, entry, key)}

\* HashMap::insert: an entry found for the key keeps its key and takes the
\* new value; otherwise a new entry is added
insert(h, pm, key, value) ==
    IF get(h, pm, key) # {}
    THEN {IF Matches(h, entry, key) THEN [k |-> entry.k, v |-> value] ELSE entry :
             entry \in pm}
    ELSE pm \cup {[k |-> key, v |-> value]}

(***************************************************************************)
(* grid: HashMap<Position, Id>, a function on the keys present.            *)
(***************************************************************************)
GridPut(g, position, id) ==
    [p \in DOMAIN g \cup {position} |-> IF p = position THEN id ELSE g[p]]

EmptyGrid == [p \in {} |-> 0]

(***************************************************************************)
(* The engine as a record, for the operations that run to completion.      *)
(***************************************************************************)
\* AStar::new
new(h) == [queue |-> <<>>, parent_map |-> {}, grid |-> EmptyGrid,
           id_counter |-> 0, hasher |-> h, log |-> <<>>, pop_log |-> <<>>,
           frames |-> <<>>]

\* AStar::clear
clear(e) == [e EXCEPT !.queue = <<>>, !.parent_map = {}, !.grid = EmptyGrid]

\* what the loop body of AStar::step did with one sampled control, for the log:
\* "rejected" (integrate gave None), "discarded" (dominated), "vacant" (first
\* arrival at the cell) or "better" (cheaper than the cell's best)
Event(kind, current, control, child) ==
    [kind |-> kind, current |-> current, control |-> control, child |-> child]

\* a dominance test that lets a child of equal g take the cell
dominated_strictly(best, child) == best.g < child.id.g

\* the dominance test of line 192: the cell's best is at least as good
dominated(best, child) == best.g <= child.id.g

\* AStar::step, the body of the loop for a control whose transition gave the
\* state cs
step_child(e, current, goal, control, cs) ==
    LET counter == e.id_counter + 1
        g == current.id.g + cost(current.state, cs)
        child == Node(Id(counter, g + heuristic(cs, goal), g), cs, control)
        position == grid_position(cs)
        occupied == position \in DOMAIN e.grid
    IN IF occupied /\ dominated(e.grid[position], child)
       THEN [e EXCEPT
               !.id_counter = counter,
               !.log = Append(@, Event("discarded", current, control, {child}))]
       ELSE [e EXCEPT
               !.id_counter = counter,
               !.grid = GridPut(e.grid, position, child.id),
               !.parent_map = insert(e.hasher, e.parent_map, child.id, current),
               !.queue = push(e.queue, child),
               !.log = Append(@, Event(IF occupied THEN "better" ELSE "vacant",
                                       current, control, {child}))]

\* a loop body that takes a rejected control for one that leaves the state
\* where it is
step_control_in_place(e, current, goal, control) ==
    LET child_state == integrate(current.state, control)
    IN step_child(e, current, goal, control,
                  IF child_state = {} THEN current.state
                  ELSE CHOOSE s \in child_state : TRUE)

\* AStar::step, the body of the loop for one sampled control
step_control(e, current, goal, control) ==
    LET child_state == integrate(current.state, control)
    IN IF child_state = {}
       THEN [e EXCEPT !.log = Append(@, Event("rejected", current, control, {}))]
       ELSE step_child(e, current, goal, control, CHOOSE s \in child_state : TRUE)

\* the fields of the engine, as they are before or after a sampled control
Collections(e) == [queue |-> e.queue, parent_map |-> e.parent_map,
                   grid |-> e.grid, id_counter |-> e.id_counter]

RECURSIVE step_controls(_, _, _, _)
step_controls(e, current, goal, controls) ==
    IF controls = <<>> THEN e
    ELSE LET after == step_control(e, current, goal, Head(controls))
             frame == [before |-> Collections(e), after |-> Collections(after)]
         IN step_controls([after EXCEPT !.frames = Append(@, frame)],
                          current, goal, Tail(controls))

\* AStar::step: whether current converges, and the engine after the expansion
step(e, current, goal) ==
    IF converge(current.state, goal)
    THEN [done |-> TRUE, e |-> e]
    ELSE [done |-> FALSE, e |-> step_controls(e, current, goal, sample(current.state))]

Reverse(seq) == [i \in 1..Len(seq) |-> seq[Len(seq) + 1 - i]]

\* The results of a call.  NoReturn stands for a call that does not return:
\* its reconstruction loop follows parent links round a cycle for ever.
Trajectory(c, t) == [cost |-> c, trajectory |-> t]
Final(t) == [tag |-> "Final", cost |-> t.cost, trajectory |-> t.trajectory]
Intermediate(t) == [tag |-> "Intermediate", cost |-> t.cost, trajectory |-> t.trajectory]
Unreachable == [tag |-> "Unreachable", cost |-> DefaultCost, trajectory |-> <<>>]
NoReturn == [tag |-> "NoReturn", cost |-> DefaultCost, trajectory |-> <<>>]
NoResult == [tag |-> "None", cost |-> DefaultCost, trajectory |-> <<>>]

\* AStar::unwind_trajectory: the loop, from node current with the pairs and the
\* cost gathered so far; seen holds the entries already followed (following
\* one twice repeats for ever)
RECURSIVE unwind_loop(_, _, _, _, _)
unwind_loop(e, current, pairs, acc, seen) ==
    LET found == get(e.hasher, e.parent_map, current.id)
    IN IF found = {}
       THEN Trajectory(acc, Reverse(pairs))
       ELSE LET entry == CHOOSE x \in found : TRUE
                p == entry.v
            IN IF entry \in seen
               THEN NoReturn
               ELSE unwind_loop(e, p, Append(pairs, <<p.state, p.control>>),
                                acc + cost(current.state, p.state),
                                seen \cup {entry})

unwind_trajectory(e, current) ==
    unwind_loop(e, current, <<<<current.state, current.control>>>>, DefaultCost, {})

\* a result built from a reconstruction, if that returns
Tagged(tag, t) ==
    IF "tag" \in DOMAIN t THEN NoReturn
    ELSE [tag |-> tag, cost |-> t.cost, trajectory |-> t.trajectory]

\* the engine once queue.pop() has returned pr.item and left pr.data (the pop
\* is entered in the log of pops)
after_pop(e, pr) == [e EXCEPT !.queue = pr.data, !.pop_log = Append(@, pr)]

\* the start node both modes seed the open set with
StartNode(start, goal) ==
    Node(Id(0, heuristic(start, goal), DefaultCost), start, DefaultControl)

\* Optimizer::next_trajectory: the engine after the call, what it returns and
\* the nodes it popped
next_trajectory(e, start, goal) ==
    LET seeded == IF e.parent_map = {} /\ e.queue = <<>>
                  THEN [e EXCEPT !.queue = push(e.queue, StartNode(start, goal))]
                  ELSE e
    IN IF seeded.queue = <<>>
       THEN [e |-> seeded, result |-> Unreachable, popped |-> <<>>]
       ELSE LET pr == pop(seeded.queue)
                current == pr.item
                st == step(after_pop(seeded, pr), current, goal)
            IN [e |-> st.e,
                result |-> Tagged(IF st.done THEN "Final" ELSE "Intermediate",
                                  unwind_trajectory(st.e, current)),
                popped |-> <<current>>]

\* a loop that stops after its first pop (`if let` for `while let`)
optimize_loop_once(e, goal, pops) ==
    IF e.queue = <<>>
    THEN [e |-> e, result |-> Unreachable, popped |-> pops]
    ELSE LET pr == pop(e.queue)
             current == pr.item
             st == step(after_pop(e, pr), current, goal)
         IN [e |-> st.e,
             result |-> IF st.done
                        THEN Tagged("Final", unwind_trajectory(st.e, current))
                        ELSE Unreachable,
             popped |-> Append(pops, current)]

\* Optimizer::optimize, the while loop
RECURSIVE optimize_loop(_, _, _)
optimize_loop(e, goal, pops) ==
    IF e.queue = <<>>
    THEN [e |-> e, result |-> Unreachable, popped |-> pops]
    ELSE LET pr == pop(e.queue)
             current == pr.item
             st == step(after_pop(e, pr), current, goal)
         IN IF st.done
            THEN [e |-> st.e,
                  result |-> Tagged("Final", unwind_trajectory(st.e, current)),
                  popped |-> Append(pops, current)]
            ELSE optimize_loop(st.e, goal, Append(pops, current))

\* optimize without its short-circuit: it seeds and searches even when the
\* start converges
optimize_always_seeds(e, start, goal) ==
    optimize_loop([e EXCEPT !.queue = push(e.queue, StartNode(start, goal))],
                  goal, <<>>)

\* Optimizer::optimize
optimize(e, start, goal) ==
    IF converge(start, goal)
    THEN [e |-> e,
          result |-> Final(Trajectory(DefaultCost, <<<<start, DefaultControl>>>>)),
          popped |-> <<>>]
    ELSE optimize_loop([e EXCEPT !.queue = push(e.queue, StartNode(start, goal))],
                       goal, <<>>)

(***************************************************************************)
(* The state machine: an engine, constructed once, on which a caller makes *)
(* any sequence of clear, next_trajectory and optimize calls.              *)
(***************************************************************************)
\* the (start, goal) pairs the calls are made with
Queries == {<<0, 3>>, <<3, 3>>, <<3, 0>>}

Engine == [queue |-> queue, parent_map |-> parent_map, grid |-> grid,
           id_counter |-> id_counter, hasher |-> hasher, log |-> <<>>,
           pop_log |-> <<>>, frames |-> <<>>]

Call(op, start, goal) == [op |-> op, start |-> start, goal |-> goal]

\* session: origin is how the collections were last emptied ("new" or
\* "clear"); mode is "idle" before any planning call, "inc" while every call
\* since then was next_trajectory with one (start, goal) and none before the
\* last returned Final or Unreachable (and the run is no longer than MaxPops),
\* and "other" otherwise; pops are the
\* nodes popped by the calls of an "inc" run
Session(origin, mode, pops) == [origin |-> origin, mode |-> mode, pops |-> pops]

Init ==
    /\ model \in Models
    /\ hasher \in Hashers
    /\ queue = <<>>
    /\ parent_map = {}
    /\ grid = EmptyGrid
    /\ id_counter = 0
    /\ call = Call("new", 0, 0)
    /\ result = NoResult
    /\ popped = <<>>
    /\ events = <<>>
    /\ pop_log = <<>>
    /\ frames = <<>>
    /\ gen = {}
    /\ used = {}
    /\ session = Session("new", "idle", <<>>)

\* the children a call generated, each with the node it was expanded from
Generated(log) ==
    UNION { {[child |-> c, parent |-> log[i].current] : c \in log[i].child} :
            i \in 1..Len(log) }

\* the engine and the observations after a planning call that returned r
Returns(op, start, goal, r) ==
    /\ result.tag # "NoReturn"
    /\ r.e.id_counter <= MaxId
    /\ Len(r.e.queue) <= MaxQueue
    /\ queue' = r.e.queue
    /\ parent_map' = r.e.parent_map
    /\ grid' = r.e.grid
    /\ id_counter' = r.e.id_counter
    /\ call' = Call(op, start, goal)
    /\ result' = r.result
    /\ popped' = r.popped
    /\ events' = r.e.log
    /\ pop_log' = r.e.pop_log
    /\ frames' = r.e.frames
    /\ gen' = gen \cup Generated(r.e.log)
    /\ used' = used \cup {<<start, goal>>}
    /\ UNCHANGED <<model, hasher>>

Clear ==
    /\ result.tag # "NoReturn"
    /\ queue' = clear(Engine).queue
    /\ parent_map' = clear(Engine).parent_map
    /\ grid' = clear(Engine).grid
    /\ id_counter' = clear(Engine).id_counter
    /\ call' = Call("clear", 0, 0)
    /\ result' = NoResult
    /\ popped' = <<>>
    /\ events' = <<>>
    /\ pop_log' = <<>>
    /\ frames' = <<>>
    /\ gen' = {}
    /\ used' = {}
    /\ session' = Session("clear", "idle", <<>>)
    /\ UNCHANGED <<model, hasher>>

NextTrajectory ==
    \E q \in Queries :
        LET r == next_trajectory(Engine, q[1], q[2])
            goes_on == \/ session.mode = "idle"
                       \/ /\ session.mode = "inc"
                          /\ used = {q}
                          /\ result.tag = "Intermediate"
                          /\ Len(session.pops) < MaxPops
        IN /\ Returns("next_trajectory", q[1], q[2], r)
           /\ session' = IF goes_on
                         THEN Session(session.origin, "inc", session.pops \o r.popped)
                         ELSE Session(session.origin, "other", <<>>)

Optimize ==
    \E q \in Queries :
        /\ Returns("optimize", q[1], q[2], optimize(Engine, q[1], q[2]))
        /\ session' = Session(session.origin, "other", <<>>)

Next == Clear \/ NextTrajectory \/ Optimize

Spec == Init /\ [][Next]_vars

\* the same engine when no two ids share a hash value in parent_map
InitNoCollision == Init /\ hasher = [i \in Ids |-> i]
SpecNoCollision == InitNoCollision /\ [][Next]_vars

\* the same engine run on the model whose cost(a, b) differs from cost(b, a)
InitAsymmetric ==
    /\ InitNoCollision
    /\ model = MkModel(LineTrans, AsymCost, ExactHeur(LineTrans, AsymCost), FineKey)
SpecAsymmetric == InitAsymmetric /\ [][Next]_vars

(***************************************************************************)
(* Vocabulary of the properties.                                           *)
(***************************************************************************)
Last(seq) == seq[Len(seq)]

\* an engine as AStar::new leaves it
Fresh == queue = <<>> /\ parent_map = {} /\ grid = EmptyGrid /\ id_counter = 0

\* the last call returned a trajectory
Returned == result.tag \in {"Final", "Intermediate"}

QueueNodes == {queue[i] : i \in 1..Len(queue)}

\* the sum of Model.cost(from_state, to_state) over the consecutive pairs of a
\* trajectory, in start-to-end order
RECURSIVE SumCost(_)
SumCost(t) ==
    IF Len(t) < 2 THEN DefaultCost
    ELSE cost(t[1][1], t[2][1]) + SumCost(Tail(t))

\* paths through sampled, successful transitions
PathExists(start, goal) ==
    PathCosts(model.trans, model.cost, Cardinality(States), start, goal) # {}
MinCost(start, goal) ==
    Min(PathCosts(model.trans, model.cost, Cardinality(States), start, goal))

\* the heuristic is consistent (hence admissible) and costs are non-negative
Consistent ==
    \A s \in States, g \in States :
        /\ heuristic(g, g) = 0
        /\ \A c \in Controls : \A n \in integrate(s, c) :
              /\ cost(s, n) >= 0
              /\ heuristic(s, g) <= cost(s, n) + heuristic(n, g)

(***************************************************************************)
(* Properties.                                                             *)
(***************************************************************************)

\* C1: optimize on a fresh engine, for a problem with non-negative costs, a
\* consistent heuristic and a path from start to goal, returns Final with a
\* trajectory from start to a converging state whose reported cost is the
\* minimum over the start-to-goal paths of the summed cost(from, to).
C1_Optimal ==
    [][ (/\ Fresh
         /\ call'.op = "optimize"
         /\ Consistent
         /\ PathExists(call'.start, call'.goal))
        => /\ result'.tag = "Final"
           /\ result'.trajectory[1][1] = call'.start
           /\ converge(Last(result'.trajectory)[1], call'.goal)
           /\ result'.cost = MinCost(call'.start, call'.goal) ]_vars

\* C2: a next_trajectory call that is not the first since construction or
\* clear and finds the open set empty returns Unreachable and leaves the open
\* set empty (the start node is not seeded again).
C2_SeededOnce ==
    [][ (/\ call'.op = "next_trajectory"
         /\ session.mode = "inc"
         /\ queue = <<>>)
        => (result'.tag = "Unreachable" /\ queue' = <<>>) ]_vars

\* C3: optimize on a fresh engine returns Unreachable when no state reachable
\* from start through successful transitions is the goal, and whenever
\* optimize returns Unreachable the open set is empty.
C3_Unreachable ==
    [][ call'.op = "optimize"
        => /\ (Fresh /\ ~PathExists(call'.start, call'.goal))
                 => result'.tag = "Unreachable"
           /\ result'.tag = "Unreachable" => queue' = <<>> ]_vars

\* an optimize call on a fresh engine that expanded nodes, exhausted the open
\* set and returned Unreachable
C3_Witness ==
    /\ call.op = "optimize"
    /\ result.tag = "Unreachable"
    /\ session.origin = "new"
    /\ gen = Generated(events)
    /\ id_counter = Cardinality(gen)
    /\ Len(popped) >= 3
    /\ queue = <<>>
    /\ ~PathExists(call.start, call.goal)

\* the nodes of a sequence of popped nodes that were expanded (a popped node
\* that converges is not)
Expanded(pops, goal) == SelectSeq(pops, LAMBDA n : ~converge(n.state, goal))

\* C4: a run of next_trajectory calls on a fresh engine, up to the call that
\* returns Final, expands the same nodes in the same order as one optimize
\* call on another fresh engine, and returns the trajectory (pairs and cost)
\* optimize returns.
C4_Equivalent ==
    (session.origin = "new" /\ session.mode = "inc" /\ result.tag = "Final")
    => \A h \in Hashers :
          LET o == optimize(new(h), call.start, call.goal)
          IN /\ Expanded(o.popped, call.goal) = Expanded(session.pops, call.goal)
             /\ o.result = result

\* C5: the cost of a returned trajectory is the sum of cost(from, to) over its
\* consecutive pairs in start-to-end order, and so the g of the popped node.
C5_CostIsPathSum ==
    Returned
    => /\ result.cost = SumCost(result.trajectory)
       /\ popped # <<>> => result.cost = Last(popped).id.g

\* the children generated since the last reset that arrived at a cell
Arrivals(key) == {x \in gen : grid_position(x.child.state) = key}

\* C6: the best-per-cell entry of every key holds the minimum g of the
\* children generated for that key since the last reset, its parent link is
\* the node whose expansion produced that child, and between resets the
\* entry's g never increases.
C6_Dominance ==
    /\ [](\A key \in DOMAIN grid :
            /\ grid[key].g = Min({x.child.id.g : x \in Arrivals(key)})
            /\ \E x \in Arrivals(key) :
                  /\ x.child.id = grid[key]
                  /\ {entry.v : entry \in get(hasher, parent_map, grid[key])}
                        = {x.parent})
    /\ [][ call'.op # "clear"
           => \A key \in DOMAIN grid :
                 key \in DOMAIN grid' /\ grid'[key].g <= grid[key].g ]_vars

\* C7: every node enqueued (in the open set, or popped from it by the last
\* call), the start node included, has an entry in the best-per-cell map under
\* the key of its state, with g at most the node's g.
C7_EnqueuedHasCell ==
    \A node \in QueueNodes \cup {popped[i] : i \in 1..Len(popped)} :
        /\ grid_position(node.state) \in DOMAIN grid
        /\ grid[grid_position(node.state)].g <= node.id.g

\* C8: every parent-link entry maps a child identity to a parent of strictly
\* smaller identity, and reconstruction terminates.
C8_ParentsOlder ==
    /\ \A entry \in parent_map : entry.v.id.id < entry.k.id
    /\ result.tag # "NoReturn"

\* C9: no parent link is found for the start node, and a returned trajectory
\* runs from (start, default control) to the popped node's (state, control).
C9_StopsAtStart ==
    /\ \A q \in used : get(hasher, parent_map, StartNode(q[1], q[2]).id) = {}
    /\ result.tag # "NoReturn"
    /\ (Returned /\ used = {<<call.start, call.goal>>})
          => /\ result.trajectory[1] = <<call.start, DefaultControl>>
             /\ popped # <<>> =>
                   Last(result.trajectory) = <<Last(popped).state, Last(popped).control>>

\* the nodes a call's expansion pushed onto the open set
Pushed(log) ==
    UNION {log[i].child : i \in {j \in 1..Len(log) : log[j].kind \in {"vacant", "better"}}}

\* C10: a next_trajectory call with a non-empty or freshly seeded open set
\* pops exactly one node, expands that node once, and returns the trajectory
\* reconstructed to it, tagged Final exactly when the node converges and
\* Intermediate otherwise.
C10_OnePopPerCall ==
    [][ (call'.op = "next_trajectory" /\ (queue # <<>> \/ parent_map = {}))
        => LET before == IF queue = <<>>
                         THEN {StartNode(call'.start, call'.goal)}
                         ELSE QueueNodes
               before_len == IF queue = <<>> THEN 1 ELSE Len(queue)
               current == popped'[1]
               pushed == Pushed(events')
           IN /\ Len(popped') = 1
              /\ current \in before
              /\ \A i \in 1..Len(events') : events'[i].current = current
              /\ Len(queue') = before_len - 1 + Cardinality(pushed)
              /\ {queue'[i] : i \in 1..Len(queue')} \subseteq before \cup pushed
              /\ pushed \subseteq {queue'[i] : i \in 1..Len(queue')}
              /\ result'.tag = IF converge(current.state, call'.goal)
                               THEN "Final" ELSE "Intermediate"
              /\ Last(result'.trajectory) = <<current.state, current.control>> ]_vars

\* what a call returns together with the engine it leaves, when made on a
\* newly constructed engine (whose parent_map hashes as this engine's does)
OnNew(op, start, goal) ==
    IF op = "optimize" THEN optimize(new(hasher), start, goal)
    ELSE next_trajectory(new(hasher), start, goal)

\* C11: after clear the open set, the best-per-cell map and the parent-link
\* table are empty, and the planning call that follows returns what the same
\* call returns on a newly constructed engine, whatever preceded the clear
\* (the identity counter, which clear leaves alone, is not observable).
C11_ClearIsNew ==
    /\ [](call.op = "clear" => (queue = <<>> /\ parent_map = {} /\ grid = EmptyGrid))
    /\ [][ (session.origin = "clear" /\ session.mode = "idle" /\ call'.op # "clear")
           => result' = OnNew(call'.op, call'.start, call'.goal).result ]_vars

\* C12: an optimize call whose start converges to the goal returns Final with
\* the single pair (start, default control) and the default (zero) cost,
\* without seeding or popping: open set, best-per-cell map, parent-link
\* table and identity counter are as before the call.
C12_ShortCircuit ==
    [][ (call'.op = "optimize" /\ converge(call'.start, call'.goal))
        => /\ result' = Final(Trajectory(DefaultCost,
                                         <<<<call'.start, DefaultControl>>>>))
           /\ popped' = <<>>
           /\ events' = <<>>
           /\ queue' = queue
           /\ grid' = grid
           /\ parent_map' = parent_map
           /\ id_counter' = id_counter ]_vars

\* a short-circuited optimize call on an engine that earlier calls left with
\* nodes in the open set, parent links, cells and a counter above zero
C12_Witness ==
    /\ call.op = "optimize"
    /\ converge(call.start, call.goal)
    /\ result.tag = "Final"
    /\ Len(result.trajectory) = 1
    /\ popped = <<>>
    /\ Len(queue) >= 2
    /\ parent_map # {}
    /\ DOMAIN grid # {}
    /\ id_counter > 0

\* C13: every node popped by optimize or next_trajectory has an f less than
\* or equal to the f of every node left in the open set at that pop.
C13_PopsLeastF ==
    \A i \in 1..Len(pop_log) :
        \A j \in 1..Len(pop_log[i].data) :
            pop_log[i].item.id.f <= pop_log[i].data[j].id.f

\* an optimize call that popped more than once and, at one of its pops, left
\* behind both a node of equal f and a node of greater f
C13_Witness ==
    /\ call.op = "optimize"
    /\ Len(pop_log) >= 2
    /\ \E i \in 1..Len(pop_log) :
          /\ \E j \in 1..Len(pop_log[i].data) :
                pop_log[i].item.id.f = pop_log[i].data[j].id.f
          /\ \E j \in 1..Len(pop_log[i].data) :
                pop_log[i].item.id.f < pop_log[i].data[j].id.f

\* the place of a control in a sequence of sampled controls
IndexOf(controls, control) ==
    CHOOSE k \in 1..Len(controls) : controls[k] = control

\* C14: a sampled control whose transition is rejected has no effect (open
\* set, parent-link table, best-per-cell map and counter are as before it),
\* and the expansion goes on with the next sampled control.
C14_RejectedNoEffect ==
    \A i \in 1..Len(events) :
        integrate(events[i].current.state, events[i].control) = {}
        => /\ frames[i].after = frames[i].before
           /\ LET controls == sample(events[i].current.state)
                  k == IndexOf(controls, events[i].control)
              IN k < Len(controls)
                 => /\ i < Len(events)
                    /\ events[i + 1].current = events[i].current
                    /\ events[i + 1].control = controls[k + 1]
                    /\ frames[i + 1].before = frames[i].before

\* an expansion, on an engine holding nodes and parent links, whose first
\* control was rejected and whose next control produced a child that was
\* enqueued
C14_Witness ==
    \E i \in 1..Len(events) :
        /\ integrate(events[i].current.state, events[i].control) = {}
        /\ frames[i].before.queue # <<>>
        /\ frames[i].before.parent_map # {}
        /\ i < Len(events)
        /\ events[i + 1].current = events[i].current
        /\ events[i + 1].kind \in {"vacant", "better"}
        /\ Len(frames[i + 1].after.queue) = Len(frames[i].before.queue) + 1

\* the g a child of node current in state cs is given (line 178)
ChildG(current, cs) == current.id.g + cost(current.state, cs)

\* C15: a child whose key has a best-per-cell entry with g_best <= g'
\* (equality included) is discarded: open set, parent-link table and
\* best-per-cell map are as before that candidate, and the identity counter
\* is one more.
C15_DominatedDiscarded ==
    \A i \in 1..Len(events) :
        \A cs \in integrate(events[i].current.state, events[i].control) :
            LET before == frames[i].before
                after == frames[i].after
                key == grid_position(cs)
            IN (/\ key \in DOMAIN before.grid
                /\ before.grid[key].g <= ChildG(events[i].current, cs))
               => /\ after.queue = before.queue
                  /\ after.parent_map = before.parent_map
                  /\ after.grid = before.grid
                  /\ after.id_counter = before.id_counter + 1

\* a candidate, on an engine holding nodes and parent links, whose child
\* arrived at a cell whose best g equals the child's, and another whose child
\* arrived at a cell of smaller best g
C15_Witness ==
    /\ \E i \in 1..Len(events) :
          \E cs \in integrate(events[i].current.state, events[i].control) :
              /\ grid_position(cs) \in DOMAIN frames[i].before.grid
              /\ frames[i].before.grid[grid_position(cs)].g
                    = ChildG(events[i].current, cs)
              /\ frames[i].before.queue # <<>>
              /\ frames[i].before.parent_map # {}
    /\ \E i \in 1..Len(events) :
          \E cs \in integrate(events[i].current.state, events[i].control) :
              /\ grid_position(cs) \in DOMAIN frames[i].before.grid
              /\ frames[i].before.grid[grid_position(cs)].g
                    < ChildG(events[i].current, cs)

Nodes(data) == {data[i] : i \in 1..Len(data)}

\* the parents recorded for an identity in a parent-link table
ParentsOf(pm, id) == {entry.v : entry \in get(hasher, pm, id)}

\* C16: a child whose key has a best-per-cell entry with g_best > g' takes
\* the cell's entry, gets a parent link to the expanded node and is pushed
\* onto the open set; the node recorded as best before stays in the open set
\* if it was there, and its own parent link is as before.
C16_BetterReplaces ==
    \A i \in 1..Len(events) :
        \A cs \in integrate(events[i].current.state, events[i].control) :
            LET before == frames[i].before
                after == frames[i].after
                key == grid_position(cs)
                g == ChildG(events[i].current, cs)
                child == Node(Id(before.id_counter + 1,
                                 g + heuristic(cs, call.goal), g),
                              cs, events[i].control)
            IN (key \in DOMAIN before.grid /\ before.grid[key].g > g)
               => /\ after.grid = GridPut(before.grid, key, child.id)
                  /\ ParentsOf(after.parent_map, child.id) = {events[i].current}
                  /\ after.queue = push(before.queue, child)
                  /\ Nodes(before.queue) \subseteq Nodes(after.queue)
                  /\ ParentsOf(after.parent_map, before.grid[key])
                        = ParentsOf(before.parent_map, before.grid[key])

\* the nodes the engine holds: those in the open set and those recorded as
\* parents
Held == Nodes(queue) \cup {entry.v : entry \in parent_map}

\* C17: the identity counter advances by exactly one for each candidate
\* whose transition succeeds, dominated or not, and by nothing for a rejected
\* one, and never decreases; and no two distinct nodes in the open set or the
\* parent-link table, the start node included, carry the same identity,
\* whatever optimize and next_trajectory calls were made since the last reset.
C17_UniqueIds ==
    /\ [](\A i \in 1..Len(events) :
            frames[i].after.id_counter
               = frames[i].before.id_counter
                 + (IF integrate(events[i].current.state, events[i].control) = {}
                    THEN 0 ELSE 1))
    /\ [][id_counter' >= id_counter]_vars
    /\ [](/\ \A a, b \in Held : a.id.id = b.id.id => a = b
          /\ \A a, b \in parent_map : a.k.id = b.k.id => a = b)

\* the controls sampled at a state
Sampled(state) == {sample(state)[k] : k \in 1..Len(sample(state))}

\* C18: every returned trajectory is a valid path: in each consecutive pair
\* the later control was sampled at the earlier state and its transition from
\* that state succeeded and produced the later state.
C18_ValidPath ==
    Returned
    => \A i \in 1..(Len(result.trajectory) - 1) :
          LET from == result.trajectory[i]
              to == result.trajectory[i + 1]
          IN /\ to[2] \in Sampled(from[1])
             /\ integrate(from[1], to[2]) = {to[1]}

\* non-negative edge costs (the keys and the sampled controls are finitely
\* many in every model)
NonNegative == \A a, b \in States : cost(a, b) >= 0

\* C19: on a problem with finitely many keys, finitely many candidates per
\* expansion and non-negative integer costs, every optimize call terminates,
\* returning Final or Unreachable.
C19_OptimizeTerminates ==
    (call.op = "optimize" /\ NonNegative)
    => result.tag \in {"Final", "Unreachable"}

\* C20: parent links are stored and looked up by node identity: when a child
\* is enqueued, its link to the expanded node is added as an entry of its
\* own, no entry of another node is overwritten (one of equal f included),
\* and the lookup for the child and for every node linked before finds that
\* node's own parent.
C20_LinksByIdentity ==
    \A i \in 1..Len(events) :
        \A child \in events[i].child :
            LET before == frames[i].before
                after == frames[i].after
            IN Len(after.queue) = Len(before.queue) + 1
               => /\ before.parent_map \subseteq after.parent_map
                  /\ [k |-> child.id, v |-> events[i].current] \in after.parent_map
                  /\ ParentsOf(after.parent_map, child.id) = {events[i].current}
                  /\ \A entry \in before.parent_map :
                        ParentsOf(after.parent_map, entry.k) = {entry.v}

====
